---- MODULE Spec2Model ----
(***************************************************************************)
(* A model of basic-kvm: the capture wrapper (video.py), the serial sender *)
(* (serial.py, main.py), the device enumerator (main.py) and the display   *)
(* widget (ui.py).  The native collaborators (OpenCV capture, pyserial,    *)
(* the V4L2 ioctl, Tk's after()) are the environment: their outcomes are   *)
(* drawn from small sets by the action that calls them.                    *)
(***************************************************************************)
EXTENDS Integers, Sequences, FiniteSets, TLC

VARIABLES
    \* the capture wrapper
    cv2,        \* video.py: the module global cv2 (TRUE = imported)
    dev,        \* the device VideoSource.source names: its modes
    cap,        \* VideoSource._cap: "None", "unopened" or "opened"
    devReq,     \* <<width, height>> last handed to _cap.set for the handle
    orphans,    \* opened native captures the wrapper dropped that are
                \* still open
    vlast,      \* the last call on the VideoSource and how it ended
    vprev,      \* the call before it (its name)
    \* the serial sender
    pyserial,   \* SerialSender._serial is not None (pyserial imported)
    infoLogs,   \* the module's logger is enabled for INFO: nothing in the
                \* package configures logging, so only a program that
                \* imports it can lower the level from WARNING
    conn,       \* SerialSender._conn: "None", or a port "open" or "closed"
    sorphans,   \* open ports the shell's senders dropped that are still
                \* open
    writes,     \* the writes that reached a port
    wire,       \* the bytes of the last write that reached a port
    slog,       \* the last log record of the sender
    slast,      \* the last call on the sender and how it ended
    sprev,      \* the call before it (its name)
    \* the device enumerator
    v4l2,       \* main.py:35-37: fcntl, os and v4l2 import
    nodes,      \* what each /dev/video* node is
    devices,    \* the list enumerate_video_devices() returned
    elast,      \* how the last enumerate_video_devices() call ended
    \* the display widget, whose source is the capture wrapper above
    running,    \* VideoWidget._running
    pending,    \* _poll callbacks armed with after() and not yet run
    photo,      \* VideoWidget._photo, the reference that keeps an image
    shown,      \* the image the label displays: NoPhoto when it shows
                \* nothing, as once its image lost its last reference
    lastSize,   \* VideoWidget._last_frame_size
    wlast,      \* the last widget handler run and how it ended
    stopTicks,  \* _poll callbacks run since stop(), -1 outside that phase
    lateRead,   \* one of them read from the source or armed the timer
    \* the application shell, which owns one sender and one widget
    tk,         \* main.py:16-19: tkinter imports (tk is not None)
    videoEnum,  \* basic_kvm.video has the name enumerate_video_devices
                \* that ui.py:5 imports from it.  The repository's video.py
                \* does not define it: it is there only where the importing
                \* program bound it beforehand
    pc,         \* where the program is: "import" (main.py is being
                \* loaded), "boot" (build_and_run_gui was called), "loop",
                \* "exited" (returned 0), "returned2" or "crashed" (the
                \* import or the function raised)
    serialStatus, \* the text of the serial_status label
    button,     \* the text of the open/close button
    resLabel,   \* the frame size the resolution label shows
    exc         \* the error that left build_and_run_gui and the call that
                \* raised it

videoVars == <<cv2, dev, cap, devReq, orphans, vlast, vprev>>

serialVars ==
    <<pyserial, infoLogs, conn, sorphans, writes, wire, slog, slast, sprev>>

enumVars == <<v4l2, nodes, devices, elast>>

widgetVars ==
    <<running, pending, photo, shown, lastSize, wlast, stopTicks,
      lateRead>>

shellVars == <<tk, videoEnum, pc, serialStatus, button, resLabel, exc>>

vars == <<videoVars, serialVars, enumVars, widgetVars, shellVars>>

----------------------------------------------------------------------------
(* Bounds *)

\* The most modes of the probe list one modelled device delivers.
MaxModes == 2

\* The most code points of a text handed to send_text.
MaxTextLen == 2

\* The most writes that reach a port in one run.
MaxWrites == 2

\* The most _poll callbacks pending on the event loop at once.
MaxPending == 2

----------------------------------------------------------------------------
(* video.py: VideoSource *)

\* video.py:47-56, the probe list, largest first
candidates ==
    << <<3840, 2160>>, <<2560, 1440>>, <<1920, 1080>>, <<1600, 900>>,
       <<1280, 720>>, <<1024, 768>>, <<800, 600>>, <<640, 480>> >>

CandidateSet == { candidates[i] : i \in 1..Len(candidates) }

\* video.py:67, range(3)
ProbeReads == 3

\* A mode a driver may fall back to that is not in the probe list; it
\* shares its width with one candidate.
OffListMode == <<1280, 960>>

\* The devices a source may name: the modes the device really delivers when
\* asked for them, and the mode it delivers otherwise.
Devices ==
    [ modes : { m \in SUBSET CandidateSet : Cardinality(m) <= MaxModes },
      dflt  : {OffListMode} ]

NoFrame == <<>>

\* The frame a native read delivers on a handle set to req: its shape is
\* (height, width), as numpy reports it.
DeliveredShape(d, req) ==
    IF req \in d.modes THEN <<req[2], req[1]>> ELSE <<d.dflt[2], d.dflt[1]>>

\* The k-th native read after a set: the first warm reads yield no frame.
NativeRead(d, req, k, warm) ==
    IF k <= warm THEN NoFrame ELSE DeliveredShape(d, req)

NoFault == [kind |-> "none", at |-> 0]

\* Where a native call raises during probing: setting the width or the
\* height of candidate `at`, or the first read after setting it.
Faults ==
    {NoFault} \cup [kind : {"setW", "setH", "read"}, at : 1..Len(candidates)]

\* What the driver does during one probing: the reads that yield no frame
\* after each set, and the native call that raises, if any.
ProbeRuns ==
    [warm : 0..ProbeReads, fault : {NoFault}] \cup [warm : {0}, fault : Faults]

RECURSIVE SettleLoop_WidthOnly(_, _, _, _, _)
SettleLoop_WidthOnly(d, req, c, k, warm) ==
    IF k > ProbeReads THEN FALSE
    ELSE LET frame == NativeRead(d, req, k, warm) IN
         IF frame = NoFrame THEN SettleLoop_WidthOnly(d, req, c, k + 1, warm)
         ELSE IF frame[2] = c[1] THEN TRUE
              ELSE SettleLoop_WidthOnly(d, req, c, k + 1, warm)

\* video.py:66-74, the settle loop: TRUE iff one of the reads k..3 yields a
\* frame whose shape is exactly the candidate c.
RECURSIVE SettleLoop(_, _, _, _, _)
SettleLoop(d, req, c, k, warm) ==
    IF k > ProbeReads THEN FALSE
    ELSE LET frame == NativeRead(d, req, k, warm) IN
         IF frame = NoFrame THEN SettleLoop(d, req, c, k + 1, warm)
         ELSE LET fh == frame[1]
                  fw == frame[2]
              IN  IF fw = c[1] /\ fh = c[2] THEN TRUE
                  ELSE SettleLoop(d, req, c, k + 1, warm)

\* video.py:58-80, the probe loop from candidate i on: the resolution left
\* requested on the handle.
RECURSIVE ProbeFrom(_, _, _, _, _)
ProbeFrom(d, req, i, warm, fault) ==
    IF i > Len(candidates) THEN req
    ELSE LET c == candidates[i] IN
         IF fault = [kind |-> "setW", at |-> i]
         THEN ProbeFrom(d, req, i + 1, warm, fault)
         ELSE IF fault = [kind |-> "setH", at |-> i]
         THEN ProbeFrom(d, <<c[1], req[2]>>, i + 1, warm, fault)
         ELSE IF fault = [kind |-> "read", at |-> i]
         THEN c
         ELSE IF SettleLoop(d, c, c, 1, warm) THEN c
         ELSE ProbeFrom(d, c, i + 1, warm, fault)

\* The record of one call: how it ended ("True", "False", "frame", "None",
\* "ok" or the error raised), the frame it returned, the handle it found
\* and, for open(), what the driver did during probing.
CallRec(op, outcome, frame, before, warm, fault) ==
    [op |-> op, outcome |-> outcome, frame |-> frame, capBefore |-> before,
     warm |-> warm, fault |-> fault]

\* The opened native captures still alive: the one the wrapper holds and
\* those it dropped that are still open.
LiveHandles == orphans + (IF cap = "opened" THEN 1 ELSE 0)

Dropped_StaysOpen(c, o) == o + (IF c = "opened" THEN 1 ELSE 0)

\* video.py:39, self._cap = cv2.VideoCapture(self.source): open() does not
\* call release() on the capture c it holds, but the rebinding takes the
\* only reference to it, so the runtime finalises it there, which releases
\* its device, before open() goes on.  Of the o captures dropped and still
\* open it is not one.
Dropped(c, o) == o

NotOpened_Raises == "RuntimeError"

\* video.py:41-42, what open() does when isOpened() is false
NotOpened == "False"

\* video.py:35-82, VideoSource.open on a source holding handle c (o dropped
\* captures so far) of device d: every way the call can end, the driver
\* behaving during probing in one of the ways of runs.  The new capture
\* replaces the held one at line 39.
OpenResults(hasCv2, d, c, req, o, runs) ==
    IF ~hasCv2
    THEN { [outcome |-> "ImportError", cap |-> c, devReq |-> req,
            orphans |-> o, warm |-> 0, fault |-> NoFault] }
    ELSE LET dropped == Dropped(c, o) IN
         { [outcome |-> NotOpened, cap |-> "unopened", devReq |-> d.dflt,
            orphans |-> dropped, warm |-> 0, fault |-> NoFault] }
         \cup
         { [outcome |-> "True", cap |-> "opened",
            devReq |-> ProbeFrom(d, d.dflt, 1, run.warm, run.fault),
            orphans |-> dropped, warm |-> run.warm, fault |-> run.fault]
           : run \in runs }

ReadResults_NoGuard(c, d, req) ==
    IF c = "opened"
    THEN { [outcome |-> "frame", frame |-> DeliveredShape(d, req)],
           [outcome |-> "None", frame |-> NoFrame],
           [outcome |-> "NativeError", frame |-> NoFrame] }
    ELSE { [outcome |-> "None", frame |-> NoFrame] }

\* video.py:142-149, VideoSource.read on handle c of device d set to req:
\* the invalid-state error without a handle, else what the native read
\* gives (no frame on a capture that never opened).
ReadResults(c, d, req) ==
    CASE c = "None"     -> { [outcome |-> "RuntimeError", frame |-> NoFrame] }
      [] c = "unopened" -> { [outcome |-> "None", frame |-> NoFrame] }
      [] c = "opened"   ->
           { [outcome |-> "frame", frame |-> DeliveredShape(d, req)],
             [outcome |-> "None", frame |-> NoFrame],
             [outcome |-> "NativeError", frame |-> NoFrame] }

\* The native release raised: recorded where open() records its faults.
ReleaseFault == [kind |-> "release", at |-> 0]

ReleaseResults_Propagates(c, o) ==
    IF c = "None"
    THEN { [outcome |-> "ok", cap |-> "None", orphans |-> o,
            fault |-> NoFault] }
    ELSE { [outcome |-> "ok", cap |-> "None", orphans |-> o,
            fault |-> NoFault],
           [outcome |-> "NativeError", cap |-> c, orphans |-> o,
            fault |-> ReleaseFault] }

\* video.py:151-157, VideoSource.release: the native release may raise,
\* which is swallowed.  The capture was handed back to the native layer
\* either way, so it no longer counts as one the wrapper created and did
\* not release.
ReleaseResults(c, o) ==
    IF c = "None"
    THEN { [outcome |-> "ok", cap |-> "None", orphans |-> o,
            fault |-> NoFault] }
    ELSE { [outcome |-> "ok", cap |-> "None", orphans |-> o,
            fault |-> f] : f \in {NoFault, ReleaseFault} }

\* video.py:35-82, VideoSource.open
Open ==
    /\ \E r \in OpenResults(cv2, dev, cap, devReq, orphans, ProbeRuns) :
         /\ cap' = r.cap
         /\ devReq' = r.devReq
         /\ orphans' = r.orphans
         /\ vlast' = CallRec("open", r.outcome, NoFrame, cap, r.warm, r.fault)
    /\ vprev' = vlast.op
    /\ UNCHANGED <<cv2, dev>>

\* video.py:142-149, VideoSource.read
Read ==
    /\ \E r \in ReadResults(cap, dev, devReq) :
         vlast' = CallRec("read", r.outcome, r.frame, cap, 0, NoFault)
    /\ vprev' = vlast.op
    /\ UNCHANGED <<cv2, dev, cap, devReq, orphans>>

\* video.py:151-157, VideoSource.release
Release ==
    /\ \E r \in ReleaseResults(cap, orphans) :
         /\ cap' = r.cap
         /\ orphans' = r.orphans
         /\ vlast' = CallRec("release", r.outcome, NoFrame, cap, 0, r.fault)
    /\ vprev' = vlast.op
    /\ UNCHANGED <<cv2, dev, devReq>>

\* video.py:31-33, VideoSource.__init__ for device d
NewSource(hasCv2, d) ==
    /\ cv2 = hasCv2
    /\ dev = d
    /\ cap = "None"
    /\ devReq = d.dflt
    /\ orphans = 0
    /\ vlast = CallRec("init", "ok", NoFrame, "None", 0, NoFault)
    /\ vprev = "init"

----------------------------------------------------------------------------
(* serial.py, main.py: SerialSender *)

\* The code points a text is made of: h, e-acute and a lone surrogate,
\* which UTF-8 cannot encode.
CodePoints == {104, 233, 55296}

RECURSIVE SeqsUpTo(_, _)
SeqsUpTo(S, n) ==
    IF n = 0 THEN {<<>>}
    ELSE LET shorter == SeqsUpTo(S, n - 1) IN
         shorter \cup { Append(t, x) : t \in shorter, x \in S }

Texts == SeqsUpTo(CodePoints, MaxTextLen)

EncodeError == <<-1>>

\* serial.py:39, one code point of text.encode("utf-8")
Utf8Char(cp) ==
    IF cp < 128 THEN <<cp>>
    ELSE IF cp < 2048 THEN <<192 + (cp \div 64), 128 + (cp % 64)>>
    ELSE IF cp >= 55296 /\ cp <= 57343 THEN EncodeError
    ELSE IF cp < 65536
    THEN <<224 + (cp \div 4096), 128 + ((cp \div 64) % 64), 128 + (cp % 64)>>
    ELSE <<240 + (cp \div 262144), 128 + ((cp \div 4096) % 64),
           128 + ((cp \div 64) % 64), 128 + (cp % 64)>>

\* serial.py:39, text.encode("utf-8"): the bytes, or EncodeError
RECURSIVE Utf8(_)
Utf8(text) ==
    IF text = <<>> THEN <<>>
    ELSE LET b == Utf8Char(Head(text))
             r == Utf8(Tail(text))
         IN  IF b = EncodeError \/ r = EncodeError THEN EncodeError
             ELSE b \o r

LogRec(kind, text) == [kind |-> kind, text |-> text]

\* The record of one call on the sender: how it ended, the connection it
\* found, the text it was given and what it logged.
SCallRec(op, outcome, before, text, logged) ==
    [op |-> op, outcome |-> outcome, connBefore |-> before, text |-> text,
     logged |-> logged]

SOpenResults_Raises(hasSerial, c, o) ==
    IF ~hasSerial
    THEN { [outcome |-> "ok", conn |-> c, orphans |-> o,
            log |-> "no-pyserial"] }
    ELSE { [outcome |-> "ok", conn |-> "open",
            orphans |-> o, log |-> "none"],
           [outcome |-> "SerialException", conn |-> c, orphans |-> o,
            log |-> "none"] }

\* serial.py:26-33, SerialSender.open: without pyserial it only logs; the
\* port it opens replaces the held one, which open() does not close but
\* the runtime finalises, and so closes, at the rebinding of _conn (line
\* 31); a failure is logged and leaves _conn as it was.
SOpenResults(hasSerial, c, o) ==
    IF ~hasSerial
    THEN { [outcome |-> "ok", conn |-> c, orphans |-> o,
            log |-> "no-pyserial"] }
    ELSE { [outcome |-> "ok", conn |-> "open",
            orphans |-> o, log |-> "none"],
           [outcome |-> "ok", conn |-> c, orphans |-> o,
            log |-> "open-failed"] }

SendResults_NoNoneCheck(c, text) ==
    IF c = "None"
    THEN { [outcome |-> "AttributeError", wrote |-> FALSE, log |-> "none"] }
    ELSE IF Utf8(text) = EncodeError \/ c = "closed"
    THEN { [outcome |-> "ok", wrote |-> FALSE, log |-> "write-failed"] }
    ELSE { [outcome |-> "ok", wrote |-> TRUE, log |-> "none"],
           [outcome |-> "ok", wrote |-> FALSE, log |-> "write-failed"] }

\* serial.py:35-43, SerialSender.send_text: with a connection it encodes
\* and writes, any error logged; a closed port refuses the write; without
\* a connection it logs the text.
SendResults(c, text) ==
    IF c # "None"
    THEN IF Utf8(text) = EncodeError \/ c = "closed"
         THEN { [outcome |-> "ok", wrote |-> FALSE, log |-> "write-failed"] }
         ELSE { [outcome |-> "ok", wrote |-> TRUE, log |-> "none"],
                [outcome |-> "ok", wrote |-> FALSE, log |-> "write-failed"] }
    ELSE { [outcome |-> "ok", wrote |-> FALSE, log |-> "dry"] }

CloseResults_LeavesOpen(c) ==
    { [outcome |-> "ok", conn |-> c, raised |-> FALSE] }

\* serial.py:45-50, SerialSender.close: closes the port, any error
\* swallowed; _conn is left bound to the port, which was handed back to
\* pyserial either way.
CloseResults(c) ==
    IF c # "None"
    THEN { [outcome |-> "ok", conn |-> "closed", raised |-> r]
           : r \in BOOLEAN }
    ELSE { [outcome |-> "ok", conn |-> c, raised |-> FALSE] }

\* serial.py:28, 43: logger.info
InfoKinds == {"no-pyserial", "dry"}

\* The log record a call leaves: the last one stays when it logs nothing,
\* and when it logs with logger.info while the logger is not enabled for
\* INFO; logger.exception (serial.py:33, 41) records at ERROR, which is
\* never below the level.
Logged(kind, text) ==
    IF kind = "none" \/ (kind \in InfoKinds /\ ~infoLogs) THEN slog
    ELSE LogRec(kind, IF kind = "dry" THEN text ELSE <<>>)

\* serial.py:26-33, SerialSender.open
SOpen ==
    /\ \E r \in SOpenResults(pyserial, conn, sorphans) :
         /\ conn' = r.conn
         /\ sorphans' = r.orphans
         /\ slog' = Logged(r.log, <<>>)
         /\ slast' = SCallRec("open", r.outcome, conn, <<>>, r.log)
    /\ sprev' = slast.op
    /\ UNCHANGED <<pyserial, infoLogs, writes, wire>>

\* serial.py:35-43, SerialSender.send_text
SendText ==
    /\ \E text \in Texts : \E r \in SendResults(conn, text) :
         /\ r.wrote => writes < MaxWrites
         /\ writes' = writes + (IF r.wrote THEN 1 ELSE 0)
         /\ wire' = IF r.wrote THEN Utf8(text) ELSE wire
         /\ slog' = Logged(r.log, text)
         /\ slast' = SCallRec("send_text", r.outcome, conn, text, r.log)
    /\ sprev' = slast.op
    /\ UNCHANGED <<pyserial, infoLogs, conn, sorphans>>

\* serial.py:45-50, SerialSender.close
SClose ==
    /\ \E r \in CloseResults(conn) :
         /\ conn' = r.conn
         /\ slast' = SCallRec("close", r.outcome, conn, <<>>,
                               IF r.raised THEN "close-raised" ELSE "none")
    /\ sprev' = slast.op
    /\ UNCHANGED <<pyserial, infoLogs, sorphans, writes, wire, slog>>

\* serial.py:5, logging.getLogger(__name__): the level in effect is the
\* root logger's, WARNING unless the importing program configured logging.
Logging(enabled) == infoLogs = enabled

\* serial.py:14-24, SerialSender.__init__
NewSender(hasSerial) ==
    /\ pyserial = hasSerial
    /\ conn = "None"
    /\ sorphans = 0
    /\ writes = 0
    /\ wire = <<>>
    /\ slog = LogRec("none", <<>>)
    /\ slast = SCallRec("init", "ok", "None", <<>>, "none")
    /\ sprev = "init"

----------------------------------------------------------------------------
(* main.py: enumerate_video_devices *)

\* The nodes /dev/video* may match, in the order sorted() puts them.
VideoNodes == <<"/dev/video0", "/dev/video1", "/dev/video10", "/dev/video2">>

\* main.py:53, v4l2.V4L2_CAP_VIDEO_CAPTURE
V4L2_CAP_VIDEO_CAPTURE == 1

\* capabilities words: a capture card, and a metadata-only node
CaptureCaps == 69206017
MetadataCaps == 77594624

\* main.py:53, caps & bit
HasCap(caps, bit) == (caps \div bit) % 2 = 1

\* What a node can be: not there, there but refusing os.open, failing the
\* VIDIOC_QUERYCAP ioctl, or answering it with its capabilities and card.
NodeKinds ==
    { [present |-> FALSE, opens |-> FALSE, ioctl |-> FALSE, caps |-> 0,
       card |-> ""] }
    \cup [present : {TRUE}, opens : {FALSE}, ioctl : {FALSE}, caps : {0},
          card : {""}]
    \cup [present : {TRUE}, opens : {TRUE}, ioctl : {FALSE}, caps : {0},
          card : {""}]
    \cup [present : {TRUE}, opens : {TRUE}, ioctl : {TRUE},
          caps : {MetadataCaps}, card : {"UVC"}]
    \cup [present : {TRUE}, opens : {TRUE}, ioctl : {TRUE},
          caps : {CaptureCaps}, card : {"", "UVC"}]

\* main.py:42, sorted(glob.glob("/dev/video*"))
Paths(n) == SelectSeq(VideoNodes, LAMBDA p : n[p].present)

\* main.py:60-61, the entry of a capture node: (display, dev)
Entry(card, path) ==
    [display |-> IF card # "" THEN <<card, " (", path, ")">> ELSE <<path>>,
     path |-> path]

\* main.py:44-69, the loop body: the entries the node at path adds
Probe(n, path) ==
    IF ~n[path].opens THEN <<>>
    ELSE IF ~n[path].ioctl THEN <<>>
    ELSE IF ~HasCap(n[path].caps, V4L2_CAP_VIDEO_CAPTURE) THEN <<>>
    ELSE << Entry(n[path].card, path) >>

\* main.py:43-71, the loop over the paths
RECURSIVE Collect(_, _)
Collect(n, paths) ==
    IF paths = <<>> THEN <<>>
    ELSE Probe(n, Head(paths)) \o Collect(n, Tail(paths))

\* main.py:25-71, enumerate_video_devices
Enumerate ==
    /\ IF ~v4l2
       THEN devices' = devices /\ elast' = "ImportError"
       ELSE devices' = Collect(nodes, Paths(nodes)) /\ elast' = "returned"
    /\ UNCHANGED <<v4l2, nodes>>

IdleEnumerator ==
    /\ v4l2 = TRUE
    /\ nodes = [p \in {} |-> 0]
    /\ devices = <<>>
    /\ elast = "init"

----------------------------------------------------------------------------
(* ui.py: VideoWidget *)

NoDevice == [modes |-> {}, dflt |-> OffListMode]

\* The devices the widget is pointed at: one that confirms no candidate and
\* one that confirms 1280x720.
WidgetDevices == { NoDevice, [modes |-> {<<1280, 720>>}, dflt |-> OffListMode] }

\* Successive frames of one shape are told apart by a tag.
FrameTags == {0, 1}

NoPhoto == [shape |-> NoFrame, tag |-> 0]

NoSize == <<>>

\* The record of one widget handler: how it ended, whether the widget was
\* running, what open() gave, whether a frame was read, how its conversion
\* went ("ok", "failed", or "none" without a frame) and whether after()
\* was called.
WCallRec(op, outcome, was, opened, read, conv, armed) ==
    [op |-> op, outcome |-> outcome, wasRunning |-> was, open |-> opened,
     read |-> read, conv |-> conv, armed |-> armed]

\* Under the widget the driver raises nothing during probing: open()
\* swallows such errors anyway.
QuietRuns == { run \in ProbeRuns : run.fault = NoFault }

\* ui.py:46 and 54, self.source.open() as the widget sees it: what it
\* returned or raised and the source it left.
OpenEffects(hasCv2, d, c, req, o) ==
    { [outcome |-> r.outcome, cap |-> r.cap, devReq |-> r.devReq,
       orphans |-> r.orphans]
      : r \in OpenResults(hasCv2, d, c, req, o, QuietRuns) }

\* ui.py:60-79, VideoWidget._poll with _running = run on a source holding
\* handle c, _photo = ph and the label displaying sh: every way one call
\* can end.  An error raised by read() leaves _poll before after() is
\* reached.  The try block swallows two failures after the frame size was
\* recorded: bgr_to_photoimage raising (line 73), which leaves _photo and
\* the label alone, and self._label.configure raising (line 75), after
\* _photo was rebound to the new image (line 74): the image the label
\* displayed lost its last reference and the label shows nothing.
PollResults(run, c, d, req, ph, sh, size) ==
    IF ~run
    THEN { [outcome |-> "ok", read |-> FALSE, conv |-> "none", armed |-> 0,
            photo |-> ph, shown |-> sh, size |-> size] }
    ELSE UNION {
           CASE r.outcome = "frame" ->
                  { [outcome |-> "ok", read |-> TRUE, conv |-> "failed",
                     armed |-> 1, photo |-> ph, shown |-> sh,
                     size |-> <<r.frame[2], r.frame[1]>>] }
                  \cup
                  { [outcome |-> "ok", read |-> TRUE, conv |-> "failed",
                     armed |-> 1, photo |-> [shape |-> r.frame, tag |-> tag],
                     shown |-> NoPhoto,
                     size |-> <<r.frame[2], r.frame[1]>>]
                    : tag \in FrameTags }
                  \cup
                  { [outcome |-> "ok", read |-> TRUE, conv |-> "ok",
                     armed |-> 1, photo |-> [shape |-> r.frame, tag |-> tag],
                     shown |-> [shape |-> r.frame, tag |-> tag],
                     size |-> <<r.frame[2], r.frame[1]>>]
                    : tag \in FrameTags }
             [] r.outcome = "None" ->
                  { [outcome |-> "ok", read |-> TRUE, conv |-> "none",
                     armed |-> 1, photo |-> ph, shown |-> sh,
                     size |-> size] }
             [] OTHER ->
                  { [outcome |-> r.outcome, read |-> TRUE, conv |-> "none",
                     armed |-> 0, photo |-> ph, shown |-> sh,
                     size |-> size] }
           : r \in ReadResults(c, d, req) }

\* ui.py:27-51, VideoWidget.set_source with a new VideoSource on device d
SetSource ==
    \E d \in WidgetDevices :
    \E rel \in ReleaseResults(cap, orphans) :
      /\ dev' = d
      /\ IF ~running
         THEN /\ cap' = "None"
              /\ devReq' = d.dflt
              /\ orphans' = rel.orphans
              /\ running' = FALSE
              /\ wlast' = WCallRec("set_source", "ok", FALSE, "none",
                                   FALSE, "none", FALSE)
              /\ UNCHANGED <<pending, photo, shown, lastSize>>
         ELSE \E o \in OpenEffects(cv2, d, "None", d.dflt, rel.orphans) :
              /\ cap' = o.cap
              /\ devReq' = o.devReq
              /\ orphans' = o.orphans
              /\ IF o.outcome = "ImportError"
                 THEN /\ running' = FALSE
                      /\ wlast' = WCallRec("set_source", "ok", TRUE,
                                           o.outcome, FALSE, "none", FALSE)
                      /\ UNCHANGED <<pending, photo, shown, lastSize>>
                 ELSE \E p \in PollResults(TRUE, o.cap, d, o.devReq,
                                           photo, shown, lastSize) :
                      /\ running' = TRUE
                      /\ pending' = pending + p.armed
                      /\ photo' = p.photo
                      /\ shown' = p.shown
                      /\ lastSize' = p.size
                      /\ wlast' = WCallRec("set_source", p.outcome, TRUE,
                                           o.outcome, p.read, p.conv,
                                           p.armed = 1)
      /\ pending' <= MaxPending
      /\ stopTicks' = -1
      /\ lateRead' = FALSE
      /\ UNCHANGED <<cv2, vlast, vprev>>

\* ui.py:53-58, VideoWidget.start
Start ==
    \E o \in OpenEffects(cv2, dev, cap, devReq, orphans) :
      /\ cap' = o.cap
      /\ devReq' = o.devReq
      /\ orphans' = o.orphans
      /\ IF o.outcome = "ImportError"
         THEN /\ wlast' = WCallRec("start", "ImportError", running,
                                   o.outcome, FALSE, "none", FALSE)
              /\ UNCHANGED <<running, pending, photo, shown, lastSize>>
         ELSE IF o.outcome = "False"
         THEN /\ wlast' = WCallRec("start", "RuntimeError", running,
                                   o.outcome, FALSE, "none", FALSE)
              /\ UNCHANGED <<running, pending, photo, shown, lastSize>>
         ELSE \E p \in PollResults(TRUE, o.cap, dev, o.devReq,
                                   photo, shown, lastSize) :
              /\ running' = TRUE
              /\ pending' = pending + p.armed
              /\ photo' = p.photo
              /\ shown' = p.shown
              /\ lastSize' = p.size
              /\ wlast' = WCallRec("start", p.outcome, running,
                                   o.outcome, p.read, p.conv, p.armed = 1)
      /\ pending' <= MaxPending
      /\ stopTicks' = -1
      /\ lateRead' = FALSE
      /\ UNCHANGED <<cv2, dev, vlast, vprev>>

\* ui.py:60-79, the event loop runs one pending _poll callback
Tick ==
    /\ pending > 0
    /\ \E p \in PollResults(running, cap, dev, devReq, photo, shown, lastSize) :
         /\ pending' = pending - 1 + p.armed
         /\ photo' = p.photo
         /\ shown' = p.shown
         /\ lastSize' = p.size
         /\ wlast' = WCallRec("tick", p.outcome, running, "none",
                              p.read, p.conv, p.armed = 1)
         /\ stopTicks' = IF stopTicks >= 0 THEN stopTicks + 1 ELSE stopTicks
         /\ lateRead' = (lateRead \/ (stopTicks >= 0 /\ (p.read \/ p.armed = 1)))
    /\ UNCHANGED <<running, videoVars>>

Stop_NoRelease ==
    /\ running' = FALSE
    /\ wlast' = WCallRec("stop", "ok", running, "none", FALSE, "none", FALSE)
    /\ stopTicks' = 0
    /\ lateRead' = FALSE
    /\ UNCHANGED <<cv2, dev, cap, devReq, orphans, vlast, vprev, pending,
                   photo, shown, lastSize>>

\* ui.py:81-86, VideoWidget.stop
Stop ==
    /\ \E rel \in ReleaseResults(cap, orphans) :
         /\ cap' = rel.cap
         /\ orphans' = rel.orphans
    /\ running' = FALSE
    /\ wlast' = WCallRec("stop", "ok", running, "none", FALSE, "none", FALSE)
    /\ stopTicks' = 0
    /\ lateRead' = FALSE
    /\ UNCHANGED <<cv2, dev, devReq, vlast, vprev, pending, photo, shown,
                   lastSize>>

\* ui.py:18-25, VideoWidget.__init__
NewWidget ==
    /\ running = FALSE
    /\ pending = 0
    /\ photo = NoPhoto
    /\ shown = NoPhoto
    /\ lastSize = NoSize
    /\ wlast = WCallRec("init", "ok", FALSE, "none", FALSE, "none", FALSE)
    /\ stopTicks = -1
    /\ lateRead = FALSE

----------------------------------------------------------------------------
(* main.py: build_and_run_gui, the application shell *)

\* main.py:211-213, the text the paste dialog returns; an empty or
\* cancelled dialog sends nothing.
ShellTexts == { <<104>> }

\* main.py:137 and 224, the device a VideoSource of the shell names: a
\* camera that confirms 1280x720, which may still fail to open.
ShellDevices == { [modes |-> {<<1280, 720>>}, dflt |-> OffListMode] }

AbsentNode ==
    [present |-> FALSE, opens |-> FALSE, ioctl |-> FALSE, caps |-> 0,
     card |-> ""]

CaptureNode ==
    [present |-> TRUE, opens |-> TRUE, ioctl |-> TRUE, caps |-> CaptureCaps,
     card |-> "UVC"]

\* main.py:42, the /dev/video* nodes the shell starts with: none, or one
\* capture node.
ShellNodes ==
    { [p \in {VideoNodes[i] : i \in 1..Len(VideoNodes)} |->
         IF p = "/dev/video0" THEN k ELSE AbsentNode]
      : k \in {AbsentNode, CaptureNode} }

\* main.py:168-172, update_serial_status for a sender holding c
StatusOf(c) == IF c # "None" THEN "Serial: open" ELSE "Serial: closed"

ButtonOf(c) == IF c # "None" THEN "Close Serial" ELSE "Open Serial"

\* An error leaving build_and_run_gui: the call that raised it and its
\* type.
Exc(at, error) == [at |-> at, error |-> error]

NoExc == Exc("none", "none")

\* The call records of the sender, the wrapper and the widget belong to
\* the specifications that call them directly; the shell leaves them.
callRecords == <<vlast, vprev, slast, sprev, wlast, stopTicks, lateRead>>

\* The ports the shell's senders opened and have not closed.
LiveConns == sorphans + (IF conn = "open" THEN 1 ELSE 0)

\* main.py:16-22, loading the module: ui.py, imported at line 22, imports
\* tkinter unguarded (ui.py:3) and then three names from video.py (ui.py:5).
\* A missing tkinter ends the load with ModuleNotFoundError, a missing name
\* with ImportError; build_and_run_gui is called in a loaded module only.
Import ==
    /\ pc = "import"
    /\ IF ~tk
       THEN /\ pc' = "crashed"
            /\ exc' = Exc("import", "ModuleNotFoundError")
       ELSE IF ~videoEnum
       THEN /\ pc' = "crashed"
            /\ exc' = Exc("import", "ImportError")
       ELSE /\ pc' = "boot"
            /\ exc' = NoExc
    /\ UNCHANGED <<videoVars, serialVars, enumVars, widgetVars, tk,
                   videoEnum, serialStatus, button, resLabel>>

\* main.py:126-246, build_and_run_gui up to mainloop(): the guard on tk
\* (lines 127-129) is kept as written, although no call finds tk None (the
\* module did not load then); the sender is
\* opened, the devices enumerated for the menu (an ImportError of the
\* enumerator and the TypeError of OptionMenu on an empty list leave the
\* function before the try), then widget.start() runs inside the try,
\* whose finally stops the widget and closes the sender when start()
\* raised.
Boot ==
    /\ pc = "boot"
    /\ IF ~tk
       THEN /\ pc' = "returned2"
            /\ exc' = NoExc
            /\ UNCHANGED <<cv2, dev, cap, devReq, orphans, pyserial, infoLogs,
                           conn,
                           sorphans, writes, wire, slog, enumVars, running,
                           pending, photo, shown, lastSize, serialStatus,
                           button,
                           resLabel>>
       ELSE \E so \in SOpenResults(pyserial, conn, sorphans) :
            IF ~v4l2 \/ Collect(nodes, Paths(nodes)) = <<>>
            THEN /\ pc' = "crashed"
                 /\ exc' = IF v4l2 THEN Exc("OptionMenu", "TypeError")
                           ELSE Exc("enumerate_video_devices", "ImportError")
                 /\ conn' = so.conn
                 /\ sorphans' = so.orphans
                 /\ slog' = Logged(so.log, <<>>)
                 /\ devices' = <<>>
                 /\ elast' = IF v4l2 THEN "returned" ELSE "ImportError"
                 /\ UNCHANGED <<cv2, dev, cap, devReq, orphans, running,
                                pending, photo, shown, lastSize, serialStatus,
                                button, resLabel, pyserial, infoLogs, writes,
                                wire,
                                v4l2, nodes>>
            ELSE \E o \in OpenEffects(cv2, dev, cap, devReq, orphans) :
                 \E p \in IF o.outcome = "True"
                          THEN PollResults(TRUE, o.cap, dev, o.devReq,
                                           photo, shown, lastSize)
                          ELSE { [outcome |-> IF o.outcome = "False"
                                              THEN "RuntimeError"
                                              ELSE o.outcome,
                                  read |-> FALSE, conv |-> "none",
                                  armed |-> 0, photo |-> photo,
                                  shown |-> shown,
                                  size |-> lastSize] } :
                 LET started == o.outcome = "True" /\ p.outcome = "ok" IN
                 \E rel \in IF started
                            THEN { [cap |-> o.cap, orphans |-> o.orphans] }
                            ELSE { [cap |-> r.cap, orphans |-> r.orphans]
                                   : r \in ReleaseResults(o.cap, o.orphans) } :
                 \E cl \in IF started
                           THEN { [conn |-> so.conn] }
                           ELSE { [conn |-> c.conn]
                                  : c \in CloseResults(so.conn) } :
                   /\ pc' = IF started THEN "loop" ELSE "crashed"
                   /\ exc' = IF started THEN NoExc
                             ELSE Exc("start", p.outcome)
                   /\ devices' = Collect(nodes, Paths(nodes))
                   /\ elast' = "returned"
                   /\ serialStatus' = "Serial: closed"
                   /\ button' = "Open Serial"
                   /\ resLabel' = NoSize
                   /\ cap' = rel.cap
                   /\ devReq' = o.devReq
                   /\ orphans' = rel.orphans
                   /\ running' = started
                   /\ pending' = pending + p.armed
                   /\ photo' = p.photo
                   /\ shown' = p.shown
                   /\ lastSize' = p.size
                   /\ conn' = cl.conn
                   /\ sorphans' = so.orphans
                   /\ slog' = Logged(so.log, <<>>)
                   /\ UNCHANGED <<cv2, dev, pyserial, infoLogs, writes, wire,
                                  v4l2,
                                  nodes>>
    /\ UNCHANGED <<tk, videoEnum, callRecords>>

\* main.py:216-226, video_changed, and ui.py:27-51, the set_source it
\* calls with a new VideoSource on device d: the old source is released,
\* the new one opened when the widget is running, and _poll() called
\* whatever open() returned; what set_source raises is logged.
VideoChanged ==
    /\ pc = "loop"
    /\ \E d \in ShellDevices : \E rel \in ReleaseResults(cap, orphans) :
         /\ dev' = d
         /\ IF ~running
            THEN /\ cap' = "None"
                 /\ devReq' = d.dflt
                 /\ orphans' = rel.orphans
                 /\ UNCHANGED <<running, pending, photo, shown, lastSize>>
            ELSE \E o \in OpenEffects(cv2, d, "None", d.dflt, rel.orphans) :
                 /\ cap' = o.cap
                 /\ devReq' = o.devReq
                 /\ orphans' = o.orphans
                 /\ IF o.outcome = "ImportError"
                    THEN /\ running' = FALSE
                         /\ UNCHANGED <<pending, photo, shown, lastSize>>
                    ELSE \E p \in PollResults(TRUE, o.cap, d, o.devReq,
                                              photo, shown, lastSize) :
                         /\ running' = TRUE
                         /\ pending' = pending + p.armed
                         /\ photo' = p.photo
                         /\ shown' = p.shown
                         /\ lastSize' = p.size
    /\ pending' <= MaxPending
    /\ UNCHANGED <<cv2, pyserial, infoLogs, conn, sorphans, writes, wire, slog,
                   enumVars, shellVars, callRecords>>

\* main.py:174-185, serial_changed to "none" or to a port: the sender is
\* closed and replaced by a new one, which is opened unless "none" was
\* chosen.  A port the old sender leaves open goes with it.
SerialChanged ==
    /\ pc = "loop"
    /\ \E choice \in {"none", "port"} : \E cl \in CloseResults(conn) :
         LET dropped == sorphans + (IF cl.conn = "open" THEN 1 ELSE 0) IN
         IF choice = "none"
         THEN /\ conn' = "None"
              /\ sorphans' = dropped
              /\ UNCHANGED slog
         ELSE \E so \in SOpenResults(pyserial, "None", dropped) :
              /\ conn' = so.conn
              /\ sorphans' = so.orphans
              /\ slog' = Logged(so.log, <<>>)
    /\ serialStatus' = StatusOf(conn')
    /\ button' = ButtonOf(conn')
    /\ UNCHANGED <<pyserial, infoLogs, writes, wire, cv2, dev, cap, devReq,
                   orphans,
                   enumVars, running, pending, photo, shown, lastSize, tk,
                   videoEnum, pc,
                   resLabel, exc, callRecords>>

\* main.py:189-195, toggle_serial: close() when the sender holds a
\* connection, open() otherwise.
ToggleSerial ==
    /\ pc = "loop"
    /\ IF conn # "None"
       THEN \E cl \in CloseResults(conn) :
              /\ conn' = cl.conn
              /\ UNCHANGED <<sorphans, slog>>
       ELSE \E so \in SOpenResults(pyserial, conn, sorphans) :
              /\ conn' = so.conn
              /\ sorphans' = so.orphans
              /\ slog' = Logged(so.log, <<>>)
    /\ serialStatus' = StatusOf(conn')
    /\ button' = ButtonOf(conn')
    /\ UNCHANGED <<pyserial, infoLogs, writes, wire, cv2, dev, cap, devReq,
                   orphans,
                   enumVars, running, pending, photo, shown, lastSize, tk,
                   videoEnum, pc,
                   resLabel, exc, callRecords>>

\* main.py:200-211, paste_and_send with the text of the dialog
PasteAndSend ==
    /\ pc = "loop"
    /\ \E text \in ShellTexts : \E r \in SendResults(conn, text) :
         /\ r.wrote => writes < MaxWrites
         /\ writes' = writes + (IF r.wrote THEN 1 ELSE 0)
         /\ wire' = IF r.wrote THEN Utf8(text) ELSE wire
         /\ slog' = Logged(r.log, text)
    /\ UNCHANGED <<pyserial, infoLogs, conn, sorphans, cv2, dev, cap, devReq,
                   orphans,
                   enumVars, running, pending, photo, shown, lastSize,
                   shellVars,
                   callRecords>>

\* ui.py:60-79, the event loop of the shell runs a pending _poll callback
PollTick ==
    /\ pc = "loop"
    /\ pending > 0
    /\ \E p \in PollResults(running, cap, dev, devReq, photo, shown, lastSize) :
         /\ pending' = pending - 1 + p.armed
         /\ photo' = p.photo
         /\ shown' = p.shown
         /\ lastSize' = p.size
    /\ UNCHANGED <<running, cv2, dev, cap, devReq, orphans, pyserial, infoLogs,
                   conn,
                   sorphans, writes, wire, slog, enumVars, shellVars,
                   callRecords>>

\* main.py:233-244, update_resolution, which re-arms itself every time:
\* res_label.configure either shows the last frame size or raises, which
\* the except swallows, the label left as it was.
UpdateResolution ==
    /\ pc = "loop"
    /\ resLabel' \in {lastSize, resLabel}
    /\ UNCHANGED <<cv2, dev, cap, devReq, orphans, pyserial, infoLogs, conn,
                   sorphans,
                   writes, wire, slog, enumVars, running, pending, photo,
                   shown, lastSize, tk, videoEnum, pc, serialStatus,
                   button, exc,
                   callRecords>>

CloseWindow_SkipsClose ==
    /\ pc = "loop"
    /\ \E e \in {NoExc, Exc("mainloop", "Error")} :
         /\ exc' = e
         /\ pc' = IF e = NoExc THEN "exited" ELSE "crashed"
    /\ \E rel \in ReleaseResults(cap, orphans) :
         /\ cap' = rel.cap
         /\ orphans' = rel.orphans
    /\ running' = FALSE
    /\ UNCHANGED <<cv2, dev, devReq, pending, photo, shown, lastSize, pyserial,
                   infoLogs,
                   conn, sorphans, writes, wire, slog, enumVars, tk, videoEnum,
                   serialStatus, button, resLabel, callRecords>>

\* main.py:244-250, mainloop() returns when the window is closed, or
\* raises (an interrupt, a toolkit error), and the finally block stops the
\* widget and closes the sender.
CloseWindow ==
    /\ pc = "loop"
    /\ \E e \in {NoExc, Exc("mainloop", "Error")} :
         /\ exc' = e
         /\ pc' = IF e = NoExc THEN "exited" ELSE "crashed"
    /\ \E rel \in ReleaseResults(cap, orphans) :
         /\ cap' = rel.cap
         /\ orphans' = rel.orphans
    /\ running' = FALSE
    /\ \E cl \in CloseResults(conn) : conn' = cl.conn
    /\ UNCHANGED <<cv2, dev, devReq, pending, photo, shown, lastSize, pyserial,
                   infoLogs,
                   sorphans, writes, wire, slog, enumVars, tk, videoEnum,
                   serialStatus,
                   button, resLabel, callRecords>>

\* main.py:126, before build_and_run_gui is called, in a loaded module
IdleShell ==
    /\ tk = TRUE
    /\ videoEnum = TRUE
    /\ pc = "idle"
    /\ serialStatus = ""
    /\ button = ""
    /\ resLabel = NoSize
    /\ exc = NoExc

----------------------------------------------------------------------------
(* The specifications: one component driven by every sequence of calls *)

InitVideo ==
    /\ \E hasCv2 \in BOOLEAN, d \in Devices : NewSource(hasCv2, d)
    /\ NewSender(FALSE)
    /\ Logging(FALSE)
    /\ IdleEnumerator
    /\ NewWidget
    /\ IdleShell

NextVideo ==
    \/ Open /\ UNCHANGED <<serialVars, enumVars, widgetVars, shellVars>>
    \/ Read /\ UNCHANGED <<serialVars, enumVars, widgetVars, shellVars>>
    \/ Release /\ UNCHANGED <<serialVars, enumVars, widgetVars, shellVars>>

SpecVideo == InitVideo /\ [][NextVideo]_vars

InitSerial ==
    /\ NewSource(TRUE, NoDevice)
    /\ \E hasSerial \in BOOLEAN : NewSender(hasSerial)
    /\ \E enabled \in BOOLEAN : Logging(enabled)
    /\ IdleEnumerator
    /\ NewWidget
    /\ IdleShell

NextSerial ==
    \/ SOpen /\ UNCHANGED <<videoVars, enumVars, widgetVars, shellVars>>
    \/ SendText /\ UNCHANGED <<videoVars, enumVars, widgetVars, shellVars>>
    \/ SClose /\ UNCHANGED <<videoVars, enumVars, widgetVars, shellVars>>

SpecSerial == InitSerial /\ [][NextSerial]_vars

\* enumerate_video_devices of a loaded main.py, called on every set of
\* nodes.
InitEnum ==
    /\ NewSource(TRUE, NoDevice)
    /\ NewSender(FALSE)
    /\ Logging(FALSE)
    /\ v4l2 \in BOOLEAN
    /\ nodes \in [ {VideoNodes[i] : i \in 1..Len(VideoNodes)} -> NodeKinds ]
    /\ devices = <<>>
    /\ elast = "init"
    /\ NewWidget
    /\ IdleShell

NextEnum ==
    Enumerate /\ UNCHANGED <<videoVars, serialVars, widgetVars, shellVars>>

SpecEnum == InitEnum /\ [][NextEnum]_vars

\* The widget of a loaded ui.py (IdleShell: the name ui.py:5 imports is
\* there), driven by every sequence of calls.
InitWidget ==
    /\ \E hasCv2 \in BOOLEAN, d \in WidgetDevices : NewSource(hasCv2, d)
    /\ NewSender(FALSE)
    /\ Logging(FALSE)
    /\ IdleEnumerator
    /\ NewWidget
    /\ IdleShell

NextWidget ==
    \/ Start /\ UNCHANGED <<serialVars, enumVars, shellVars>>
    \/ SetSource /\ UNCHANGED <<serialVars, enumVars, shellVars>>
    \/ Tick /\ UNCHANGED <<serialVars, enumVars, shellVars>>
    \/ Stop /\ UNCHANGED <<serialVars, enumVars, shellVars>>

SpecWidget == InitWidget /\ [][NextWidget]_vars

\* The program from the load of main.py on: with the repository's
\* video.py (videoEnum FALSE) the load fails; where the name is supplied
\* build_and_run_gui is called and the events of the window come in every
\* order.
InitShell ==
    /\ \E hasCv2 \in BOOLEAN, d \in ShellDevices : NewSource(hasCv2, d)
    /\ \E hasSerial \in BOOLEAN : NewSender(hasSerial)
    /\ \E enabled \in BOOLEAN : Logging(enabled)
    /\ v4l2 \in BOOLEAN
    /\ nodes \in ShellNodes
    /\ devices = <<>>
    /\ elast = "init"
    /\ NewWidget
    /\ tk \in BOOLEAN
    /\ videoEnum \in BOOLEAN
    /\ pc = "import"
    /\ serialStatus = ""
    /\ button = ""
    /\ resLabel = NoSize
    /\ exc = NoExc

NextShell ==
    \/ Import
    \/ Boot
    \/ VideoChanged
    \/ SerialChanged
    \/ ToggleSerial
    \/ PasteAndSend
    \/ PollTick
    \/ UpdateResolution
    \/ CloseWindow

SpecShell == InitShell /\ [][NextShell]_vars

----------------------------------------------------------------------------
(* Properties of the capture wrapper, checked under SpecVideo *)

\* C1: read() raises the invalid-state error (RuntimeError) whenever the
\* source holds no handle: release() always leaves the source without a
\* handle, and a read() that finds no handle, on a source never opened or
\* after any calls ending in release(), ends in RuntimeError.
C1_ReadWithoutHandleRaises ==
    /\ (vlast.op = "release" => cap = "None")
    /\ (vlast.op = "read" /\ vlast.capBefore = "None"
            => vlast.outcome = "RuntimeError" /\ cap = "None")

\* a read() right after the release() of an opened source
C1_Witness ==
    /\ vlast.op = "read" /\ vprev = "release"
    /\ vlast.outcome = "RuntimeError"
    /\ orphans = 0 /\ cv2

\* C2: with cv2 present, an open() whose device cannot be opened returns
\* the boolean False and does not raise, and a release() ends without an
\* error and leaves no handle, whatever handle open() left behind.
C2_OpenFailureReturnsFalse ==
    /\ (vlast.op = "open" /\ cv2 /\ cap # "opened"
            => vlast.outcome = "False" /\ cap = "unopened")
    /\ (vlast.op = "open" /\ cv2 => vlast.outcome \in {"True", "False"})
    /\ (vlast.op = "release" /\ vprev = "open"
            => vlast.outcome = "ok" /\ cap = "None")

\* a release() right after an open() that returned False
C2_Witness ==
    /\ vlast.op = "release" /\ vprev = "open"
    /\ vlast.capBefore = "unopened"
    /\ vlast.outcome = "ok"

\* C3: a read() before a successful open(), in particular after an open()
\* that returned False, ends in the invalid-state error.
C3_ReadBeforeSuccessfulOpenRaises ==
    vlast.op = "read" /\ vlast.capBefore # "opened"
        => vlast.outcome = "RuntimeError"

C4_WitnessFailed ==
    /\ vlast.op = "open" /\ vlast.capBefore = "opened"
    /\ vlast.outcome = NotOpened
    /\ cap = "unopened" /\ LiveHandles = 0

\* The candidate (w, h) is one the device confirms: asked for it, it
\* delivers frames of exactly that width and height.
Confirms(d, c) == DeliveredShape(d, c) = <<c[2], c[1]>>

\* C6: after an open() that returned True, the resolution left requested is
\* the first candidate of the list, highest first, that the device confirms
\* within the three reads and whose requests went through, provided no
\* read raised on the way there; for a device confirming 1280x720 only, it
\* is 1280x720.
C6_FirstConfirmedCandidateWins ==
    (vlast.op = "open" /\ vlast.outcome = "True" /\ vlast.warm < ProbeReads)
    => \A i \in 1..Len(candidates) :
         LET taken(j) == Confirms(dev, candidates[j]) /\ vlast.fault.at # j
         IN  ( /\ taken(i)
               /\ \A j \in 1..(i - 1) :
                     ~taken(j) /\ vlast.fault # [kind |-> "read", at |-> j] )
             => devReq = candidates[i]

\* open() on a device that confirms 1280x720 only, found on the last read
C6_Witness ==
    /\ vlast.op = "open" /\ vlast.outcome = "True"
    /\ dev.modes = {<<1280, 720>>}
    /\ vlast.warm = ProbeReads - 1
    /\ devReq = <<1280, 720>>

----------------------------------------------------------------------------
(* Properties of the serial sender, checked under SpecSerial *)

\* C5: close() leaves the sender CLOSED, that is without a connection, and
\* does not raise: after a close() (the first on an open sender, or a
\* second one) the sender holds no connection.
C5_CloseLeavesNoConnection ==
    slast.op = "close" => (conn = "None" /\ slast.outcome = "ok")

\* C9: a send_text on a sender without a connection hands the text to the
\* logger (the record, kept when the logger is enabled for INFO, holds the
\* text), writes nothing to any port, leaves the sender without a
\* connection and does not raise; and without pyserial the sender never
\* holds a connection, whatever is called.
C9_ClosedSendLogs ==
    [][ /\ (conn = "None" /\ slast'.op = "send_text")
            => /\ writes' = writes /\ wire' = wire
               /\ conn' = "None"
               /\ slast'.outcome = "ok"
               /\ slast'.logged = "dry"
               /\ infoLogs => slog' = LogRec("dry", slast'.text)
        /\ (~pyserial => conn' = "None") ]_vars

\* without pyserial and with the logger enabled for INFO, a send_text right
\* after an open() left a record of its text
C9_Witness ==
    /\ ~pyserial /\ infoLogs /\ sprev = "open"
    /\ slast.op = "send_text" /\ slast.text = <<104, 233>>
    /\ slast.logged = "dry"
    /\ slog = LogRec("dry", <<104, 233>>)
    /\ conn = "None" /\ writes = 0

----------------------------------------------------------------------------
(* Properties of the device enumerator, checked under SpecEnum *)

\* C8: the list enumerate_video_devices() returns is never empty, whatever
\* nodes the glob finds and however their capability queries end.
C8_EnumeratorNeverEmpty ==
    elast = "returned" => Len(devices) > 0

----------------------------------------------------------------------------
(* Properties of the display widget, checked under SpecWidget *)

\* C7: a set_source on a running widget whose new source fails to open
\* (open() returns False or raises) leaves the widget stopped: not running,
\* no poll callback armed by the call, no error raised to the caller.
C7_FailedSwapLeavesStopped ==
    ( /\ wlast.op = "set_source" /\ wlast.wasRunning
      /\ wlast.open \in {"False", "ImportError"} )
    => (~running /\ ~wlast.armed /\ wlast.outcome = "ok")

\* C10: after stop(), with no start() or set_source() since, at most one
\* poll callback already armed still runs, and none that runs reads from
\* the source or arms the timer again.
C10_StopTakesEffectNextTick ==
    stopTicks <= 1 /\ ~lateRead

\* No candidate of the list is confirmed by the device within the reads of
\* one probing in which the first warm reads after each set yield no frame.
Unconfirmed(d, warm) ==
    \A i \in 1..Len(candidates) :
        ~SettleLoop(d, candidates[i], candidates[i], 1, warm)

\* C12: after an open() that returned True without any candidate being
\* confirmed and without a native call raising, the device delivers frames
\* of its default resolution, not of the last candidate requested.
C12_ExhaustedListLeavesDefault ==
    ( /\ vlast.op = "open" /\ vlast.outcome = "True"
      /\ vlast.fault = NoFault
      /\ Unconfirmed(dev, vlast.warm) )
    => DeliveredShape(dev, devReq) = <<dev.dflt[2], dev.dflt[1]>>

\* C13: release() never raises and always leaves the wrapper without a
\* handle, also when the native release raised; on a wrapper without a
\* handle (never opened, or released already) it changes nothing, so two
\* releases in a row leave what one leaves.
C13_ReleaseIdempotent ==
    [][ Release =>
          /\ vlast'.outcome = "ok"
          /\ cap' = "None"
          /\ cap = "None" => UNCHANGED <<cv2, dev, cap, devReq, orphans>>
          /\ vlast.op = "release" => UNCHANGED <<cv2, dev, cap, devReq,
                                                 orphans>>
      ]_vars

\* a second release() in a row, on the wrapper the first left without a
\* handle
C13_Witness ==
    /\ vlast.op = "release" /\ vprev = "release"
    /\ vlast.capBefore = "None" /\ vlast.outcome = "ok"
    /\ cap = "None"

\* release() of an opened capture whose native release raised
C13_WitnessRaised ==
    /\ vlast.op = "release" /\ vlast.fault = ReleaseFault
    /\ vlast.capBefore = "opened" /\ cap = "None"

\* C14: open() never raises, and when it acquires no connection (pyserial
\* missing, or the port failing to open) it leaves the sender as it was: a
\* sender without a connection stays without one.  A send_text whose write
\* fails on a sender holding a connection does not raise, logs the failure
\* and leaves the sender holding the same connection.
C14_SerialFailuresAreSwallowed ==
    /\ slast.op = "open" =>
         /\ slast.outcome = "ok"
         /\ slast.logged \in {"open-failed", "no-pyserial"} =>
              /\ conn = slast.connBefore
              /\ slast.connBefore = "None" => conn = "None"
              /\ (slast.logged = "open-failed" \/ infoLogs) =>
                   slog.kind = slast.logged
    /\ (slast.op = "send_text" /\ slast.connBefore # "None") =>
         /\ slast.outcome = "ok"
         /\ conn = slast.connBefore
         /\ slast.logged \in {"none", "write-failed"}
         /\ slast.logged = "write-failed" => slog.kind = "write-failed"

\* open() on a sender without a connection, the port failing to open
C14_Witness ==
    /\ slast.op = "open" /\ slast.logged = "open-failed"
    /\ slast.connBefore = "None" /\ conn = "None"

\* send_text on a sender holding an open port, the write failing
C14_WitnessWrite ==
    /\ slast.op = "send_text" /\ slast.logged = "write-failed"
    /\ slast.connBefore = "open" /\ conn = "open"
    /\ Utf8(slast.text) # EncodeError

\* The enumerator queried the capabilities of the node and they show no
\* video capture.
KnownNonCapture(kind) ==
    kind.opens /\ kind.ioctl /\ ~HasCap(kind.caps, V4L2_CAP_VIDEO_CAPTURE)

\* C15: the list enumerate_video_devices() returns holds every /dev/video*
\* node except those whose capabilities were queried and show no video
\* capture: a node whose query failed is listed.
C15_EnumeratorFailsOpen ==
    elast = "returned" =>
      \A i \in 1..Len(VideoNodes) :
         LET p == VideoNodes[i] IN
         nodes[p].present =>
           ( (\E k \in 1..Len(devices) : devices[k].path = p)
             <=> ~KnownNonCapture(nodes[p]) )

\* C16: a poll that read a frame whose conversion or rendering failed
\* does not raise, leaves the image the label displays as it was and arms
\* the next tick.
C16_ConversionFailureKeepsImage ==
    [][ wlast'.conv = "failed" =>
          /\ wlast'.outcome = "ok"
          /\ wlast'.read
          /\ shown' = shown
          /\ wlast'.armed
          /\ wlast'.op = "tick" => pending' = pending
      ]_vars

\* C17: a start() whose open() succeeded returns with the widget running
\* and the next tick armed; a start() whose open() failed raised an error,
\* armed nothing and leaves the widget not running.
C17_StartOpensOrRaises ==
    wlast.op = "start" =>
      /\ wlast.open = "True" =>
           wlast.outcome = "ok" /\ running /\ wlast.armed
      /\ wlast.open # "True" =>
           /\ wlast.outcome \in {"RuntimeError", "ImportError"}
           /\ ~wlast.armed
           /\ ~running

\* C18: stop() never raises and leaves the widget not running with its
\* source released; on a widget that is not running and whose source holds
\* no handle (stopped already, or never started) it changes nothing.
C18_StopIdempotent ==
    [][ /\ wlast'.op = "stop" =>
             ~running' /\ cap' = "None" /\ wlast'.outcome = "ok"
        /\ (~running /\ cap = "None" /\ Stop) =>
             UNCHANGED <<running, pending, photo, shown, lastSize, dev, cap,
                         devReq, orphans>>
      ]_vars

\* stop() on a widget that had run and was not running any more
C18_Witness ==
    /\ wlast.op = "stop" /\ ~wlast.wasRunning /\ stopTicks = 0
    /\ photo # NoPhoto
    /\ ~running /\ cap = "None"

\* C19: at most one _poll callback is pending in the event loop, whatever
\* start(), set_source(), stop() and ticks came before.
C19_SinglePollingChain == pending <= 1

\* C20: a tick of a running widget whose read yields no frame, the native
\* read returning none or raising, does not raise and arms the next tick.
C20_FailedReadIsRetried ==
    (wlast.op = "tick" /\ wlast.wasRunning /\ wlast.read
       /\ wlast.conv = "none")
    => /\ wlast.outcome = "ok"
       /\ wlast.armed
       /\ pending > 0

\* C11: in every run of the shell, whatever the order of video-menu
\* changes, serial-menu changes, toggle presses, pastes and timer ticks, at
\* most one capture the shell's sources opened is unreleased and at most
\* one port its senders opened is unclosed.
C11_ExclusiveOwnership == LiveHandles <= 1 /\ LiveConns <= 1

\* the shell in its event loop after the video source was changed while
\* the widget was running (a second callback is pending) and the serial
\* port was reopened by a handler (the label says so), a capture and a
\* port being held
C11_Witness ==
    /\ pc = "loop"
    /\ pending = 2 /\ running
    /\ serialStatus = "Serial: open"
    /\ cap = "opened" /\ conn = "open"
    /\ LiveHandles = 1 /\ LiveConns = 1

\* C21: build_and_run_gui is never left by the error start() raises when
\* the initial video device fails to open: the shell reaches its event
\* loop instead.
C21_OpenFailureNotFatal ==
    ~(pc = "crashed" /\ exc = Exc("start", "RuntimeError"))

\* C22: a press of the serial toggle on a sender whose port is open closes
\* it and leaves the label "Serial: closed" and the button "Open Serial";
\* a press on a sender whose port is not open tries to open one, and
\* leaves the label "Serial: open" when it opened.
C22_ToggleAlternates ==
    [][ ToggleSerial =>
          /\ conn = "open" =>
               /\ conn' # "open"
               /\ serialStatus' = "Serial: closed"
               /\ button' = "Open Serial"
          /\ conn # "open" =>
               /\ conn' = "open" \/ ~pyserial
                                  \/ slog'.kind = "open-failed"
               /\ conn' = "open" => serialStatus' = "Serial: open"
      ]_vars

\* build_and_run_gui has left its try block: mainloop() returned or
\* raised, or start() raised.
LeftTheLoop ==
    \/ pc = "exited"
    \/ pc = "crashed" /\ exc.at \in {"start", "mainloop"}

\* C23: once the shell has left its try block, by the window closing or by
\* an error of start() or of the loop, the widget is stopped and no
\* capture and no port the shell opened is left unreleased, whatever
\* video and serial switches came before.
C23_NothingLiveAtExit ==
    LeftTheLoop => /\ ~running
                   /\ cap = "None"
                   /\ LiveHandles = 0
                   /\ conn # "open"
                   /\ LiveConns = 0

\* the window was closed after the video source had been switched on the
\* running widget and a handler had reopened the serial port
C23_Witness ==
    /\ pc = "exited"
    /\ pending = 2
    /\ serialStatus = "Serial: open"
    /\ conn = "closed" /\ cap = "None"

\* start() raised on a device that opened, the sender holding a port
C23_WitnessStart ==
    /\ pc = "crashed" /\ exc = Exc("start", "NativeError")
    /\ conn = "closed" /\ cap = "None"

====
